---- MODULE Spec2Model ----
(***************************************************************************)
(* Model of iszandro/go-utils: the reflection based slice utility          *)
(* Combination (package utils) and the ArrayList container (package        *)
(* arraylist).  Go slices are modelled as headers (array, len, cap) over a *)
(* heap of backing arrays, so that the sharing of a backing array between  *)
(* the list and a slice held by the caller is part of the model.           *)
(***************************************************************************)
EXTENDS Integers, Sequences, FiniteSets

\* ---------------------------------------------------------------- bounds
MaxSize == 3        \* largest list length explored
MaxArgs == 2        \* most elements passed to one Add, AddFirst or AddAt
MaxVal == 1         \* element values are 0 (nil) .. MaxVal
MaxCopy == 1        \* largest list explored together with its copies
MaxN == 3           \* most arguments handed to Combination
MaxLen == 3         \* longest slice handed to Combination

Nil == 0
Elem == 0..MaxVal
\* Heap addresses: one per slice that can be live, and three for the
\* allocations within one call.
ArrIds == 1..6
\* Spare capacity the caller gives a slice it makes: none or one cell.
Spares == {0, 1}

VARIABLES heap,     \* address -> backing array (<<>> when the address is free)
          a,        \* ArrayList.slice, the list's slice header
          c,        \* the slice the caller passed as objs... and still holds
          s,        \* the slice the caller got from Slice()
          count,    \* elements added minus elements removed since the last Clear
          last,     \* the last call: operation, operands, results
          comb      \* the last call of Combination: arguments and results

vars == <<heap, a, c, s, count, last, comb>>

\* ------------------------------------------------------- slices and heap
\* The nil slice; also stands for the empty literal []interface{}{}.
NilSlice == [arr |-> 0, len |-> 0, cap |-> 0]

\* The elements slice sl shows, read from heap h.
Contents(h, sl) == IF sl.arr = 0 THEN <<>> ELSE SubSeq(h[sl.arr], 1, sl.len)

\* The elements of sl[from:], 0-based from.
SliceFrom(h, sl, from) == IF sl.arr = 0 THEN <<>> ELSE SubSeq(h[sl.arr], from + 1, sl.len)

Nils(n) == [i \in 1..n |-> Nil]

\* The address a fresh allocation gets.
Alloc(h) == CHOOSE i \in ArrIds : h[i] = <<>> /\ \A j \in 1..(i - 1) : h[j] # <<>>

\* The capacity append gives the array it allocates (runtime.growslice, for
\* capacities below 256): twice the old one, or the needed length when that
\* is larger.  The size classes of 16-byte elements leave it as it is up to
\* 16 elements.
growcap(oldcap, need) == IF need > 2 * oldcap THEN need ELSE 2 * oldcap

\* Go's built-in append(sl, vals...): in place when the capacity suffices
\* (which also writes the array of every slice sharing it), otherwise into
\* a new array.  vals is read before anything is written (memmove).
append(h, sl, vals) ==
    LET n == Len(vals)
        need == sl.len + n
    IN  IF n = 0 THEN [heap |-> h, slice |-> sl]
        ELSE IF need <= sl.cap
        THEN [heap |-> [h EXCEPT ![sl.arr] =
                          [i \in 1..sl.cap |->
                              IF i > sl.len /\ i <= need THEN vals[i - sl.len] ELSE @[i]]],
              slice |-> [sl EXCEPT !.len = need]]
        ELSE LET id == Alloc(h)
                 newcap == growcap(sl.cap, need)
             IN  [heap |-> [h EXCEPT ![id] = Contents(h, sl) \o vals \o Nils(newcap - need)],
                  slice |-> [arr |-> id, len |-> need, cap |-> newcap]]

\* Heap addresses are not observable, and neither is a cell beyond the length
\* of every slice over its array.  After each call the arrays still referred
\* to are kept at a fixed address per owner (the list's at 1, the caller's own
\* at 2 and 3), the others are collected and the cells no slice shows are nil.
Max(m, n) == IF m >= n THEN m ELSE n

\* The array at address id with the cells beyond n set to nil.
Shown(h, id, n) == [i \in 1..Len(h[id]) |-> IF i <= n THEN h[id][i] ELSE Nil]

Collect(h, la, lc, ls) ==
    LET cOwn == lc.arr # 0 /\ lc.arr # la.arr
        sOwn == ls.arr # 0 /\ ls.arr # la.arr /\ ls.arr # lc.arr
        lenOn(sl, id) == IF sl.arr = id THEN sl.len ELSE 0
        shown(id) == Max(lenOn(la, id), Max(lenOn(lc, id), lenOn(ls, id)))
    IN  [heap |-> [i \in ArrIds |->
                      IF i = 1 /\ la.arr # 0 THEN Shown(h, la.arr, shown(la.arr))
                      ELSE IF i = 2 /\ cOwn THEN Shown(h, lc.arr, shown(lc.arr))
                      ELSE IF i = 3 /\ sOwn THEN Shown(h, ls.arr, shown(ls.arr))
                      ELSE <<>>],
         a |-> [la EXCEPT !.arr = IF @ = 0 THEN 0 ELSE 1],
         c |-> [lc EXCEPT !.arr = IF @ = 0 THEN 0 ELSE IF cOwn THEN 2 ELSE 1],
         s |-> [ls EXCEPT !.arr = IF @ = 0 THEN 0 ELSE IF sOwn THEN 3
                                  ELSE IF ls.arr = la.arr THEN 1 ELSE 2]]

\* ----------------------------------------------------------- Combination
\* An argument of Combination: a slice with its elements, or a value of
\* another kind.  Element j of argument i is the label 10*i + j, so that a
\* tuple shows where each of its elements came from.
NotSlice == [slice |-> FALSE, elems |-> <<>>]

ArgOf(i, n) == [slice |-> TRUE, elems |-> [j \in 1..n |-> 10 * i + j]]

\* func combination(singleCombination, combinations, depthLevel, slicesValue):
\* the buffer and the result are shared by all levels; the error of the call
\* for the next level is dropped.
RECURSIVE combination(_, _, _, _)
RECURSIVE combinationLoop(_, _, _, _, _)

\* combinationLoop appending the buffer itself instead of a copy of it: every
\* entry of the result then shows what the buffer holds last.
combinationLoopAlias(sc, cs, depthLevel, slices, i) ==
    IF ~(i < Len(slices[depthLevel + 1].elems))
    THEN [sc |-> sc, cs |-> cs, err |-> "nil", panicked |-> FALSE]
    ELSE LET sc1 == [sc EXCEPT ![depthLevel + 1] = slices[depthLevel + 1].elems[i + 1]]
             nextLevel == depthLevel + 1
             r == IF nextLevel < Len(slices)
                  THEN combination(sc1, cs, nextLevel, slices)
                  ELSE [sc |-> sc1, cs |-> [k \in 1..(Len(cs) + 1) |-> sc1],
                        err |-> "nil", panicked |-> FALSE]
         IN  IF Len(r.cs) >= 0 /\ Len(r.sc) >= 0
             THEN combinationLoop(r.sc, r.cs, depthLevel, slices, i + 1)
             ELSE r

combinationLoop(sc, cs, depthLevel, slices, i) ==
    IF ~(i < Len(slices[depthLevel + 1].elems))
    THEN [sc |-> sc, cs |-> cs, err |-> "nil", panicked |-> FALSE]
    ELSE LET sc1 == [sc EXCEPT ![depthLevel + 1] = slices[depthLevel + 1].elems[i + 1]]
             nextLevel == depthLevel + 1
             r == IF nextLevel < Len(slices)
                  THEN combination(sc1, cs, nextLevel, slices)
                  ELSE [sc |-> sc1, cs |-> Append(cs, sc1),
                        err |-> "nil", panicked |-> FALSE]
         \* (the test is always true; it makes TLC evaluate r before it goes on)
         IN  IF Len(r.cs) >= 0 /\ Len(r.sc) >= 0
             THEN combinationLoop(r.sc, r.cs, depthLevel, slices, i + 1)
             ELSE r

combination(sc, cs, depthLevel, slices) ==
    IF ~(depthLevel < Len(slices))
    THEN [sc |-> sc, cs |-> cs, err |-> "nil", panicked |-> TRUE]
    ELSE IF ~slices[depthLevel + 1].slice
    THEN [sc |-> sc, cs |-> cs, err |-> "NotSliceErr", panicked |-> FALSE]
    ELSE combinationLoop(sc, cs, depthLevel, slices, 0)

\* func Combination(slices ...interface{}): the variadic slices is always a
\* slice, so the first check never fails.
Combination(slices) ==
    LET r == combination(Nils(Len(slices)), <<>>, 0, slices)
    IN  [called |-> TRUE, args |-> slices,
         out |-> IF r.panicked THEN <<>> ELSE r.cs,
         err |-> IF r.panicked THEN "nil" ELSE r.err,
         panicked |-> r.panicked]

\* ------------------------------------------------------------- ArrayList
\* New(): the zero ArrayList, whose slice is nil.
New == NilSlice

Size(sl) == sl.len

IsEmpty(sl) == Size(sl) = 0

checkRangeForAddAt(sl, pos) ==
    IF pos > Size(sl) \/ pos < 0 THEN "IndexOutOfRange" ELSE "nil"

checkRange(sl, pos) ==
    IF pos > Size(sl) - 1 \/ pos < 0 THEN "IndexOutOfRange" ELSE "nil"

\* a.slice = append(a.slice, objs...)
Add(h, sl, objs) == append(h, sl, Contents(h, objs))

\* AddFirst with the operands of append exchanged.
AddFirstAtEnd(h, sl, objs) == append(h, sl, Contents(h, objs))

\* a.slice = append(objs, a.slice...): the appended-to slice is the caller's.
AddFirst(h, sl, objs) == append(h, objs, Contents(h, sl))

\* a.slice = append(append(append([]interface{}{}, a.slice[:pos]...), elements...), a.slice[pos:]...)
addAt(h, sl, pos, objs) ==
    LET r1 == append(h, NilSlice, SubSeq(Contents(h, sl), 1, pos))
        r2 == append(r1.heap, r1.slice, Contents(r1.heap, objs))
    IN  append(r2.heap, r2.slice, SliceFrom(r2.heap, sl, pos))

\* AddAt checking the position only after it has added.
AddAtLate(h, sl, pos, objs) ==
    LET r == IF pos <= 0 THEN append(h, objs, Contents(h, sl))
             ELSE append(h, sl, Contents(h, objs))
    IN  [heap |-> r.heap, slice |-> r.slice,
         err |-> IF pos > sl.len \/ pos < 0 THEN "IndexOutOfRange" ELSE "nil"]

AddAt(h, sl, pos, objs) ==
    IF checkRangeForAddAt(sl, pos) # "nil"
    THEN [heap |-> h, slice |-> sl, err |-> checkRangeForAddAt(sl, pos)]
    ELSE LET r == IF pos = 0 THEN AddFirst(h, sl, objs)
                  ELSE IF pos = Size(sl) THEN Add(h, sl, objs)
                  ELSE addAt(h, sl, pos, objs)
         IN  [heap |-> r.heap, slice |-> r.slice, err |-> "nil"]

Clear == NilSlice

Get(h, sl, pos) ==
    IF checkRange(sl, pos) # "nil"
    THEN [ret |-> Nil, err |-> "IndexOutOfRange"]
    ELSE [ret |-> h[sl.arr][pos + 1], err |-> "nil"]

\* for i, o := range a.slice { if reflect.DeepEqual(o, obj) { return i } }
RECURSIVE scanUp(_, _, _)
scanUp(xs, obj, i) ==
    IF i >= Len(xs) THEN -1
    ELSE IF xs[i + 1] = obj THEN i
    ELSE scanUp(xs, obj, i + 1)

\* for i := a.Size() - 1; i > -1; i-- { ... }
RECURSIVE scanDown(_, _, _)
scanDown(xs, obj, i) ==
    IF ~(i > -1) THEN -1
    ELSE IF xs[i + 1] = obj THEN i
    ELSE scanDown(xs, obj, i - 1)

IndexOf(h, sl, obj) == scanUp(Contents(h, sl), obj, 0)

\* LastIndexOf with the loop ending at i > 0.
LastIndexOfShort(h, sl, obj) ==
    LET i == scanDown(SubSeq(Contents(h, sl), 2, sl.len), obj, sl.len - 2)
    IN  IF i = -1 THEN -1 ELSE i + 1

LastIndexOf(h, sl, obj) == scanDown(Contents(h, sl), obj, Size(sl) - 1)

\* RemoveAt that clears the cell and keeps the length.
RemoveAtNoShrink(h, sl, pos) ==
    IF pos > sl.len - 1 \/ pos < 0
    THEN [heap |-> h, slice |-> sl, err |-> "IndexOutOfRange"]
    ELSE [heap |-> [h EXCEPT ![sl.arr][pos + 1] = Nil], slice |-> sl, err |-> "nil"]

\* a.slice[pos] = nil; a.slice = append(a.slice[:pos], a.slice[pos+1:]...)
RemoveAt(h, sl, pos) ==
    IF checkRange(sl, pos) # "nil"
    THEN [heap |-> h, slice |-> sl, err |-> checkRange(sl, pos)]
    ELSE LET h1 == [h EXCEPT ![sl.arr][pos + 1] = Nil]
             r == append(h1, [sl EXCEPT !.len = pos], SliceFrom(h1, sl, pos + 1))
         IN  [heap |-> r.heap, slice |-> r.slice, err |-> "nil"]

\* Remove scanning from the end.
RemoveLast(h, sl, obj) ==
    LET i == scanDown(Contents(h, sl), obj, sl.len - 1)
    IN  IF i # -1
        THEN LET h1 == [h EXCEPT ![sl.arr][i + 1] = Nil]
                 r == append(h1, [sl EXCEPT !.len = i], SliceFrom(h1, sl, i + 1))
             IN  [heap |-> r.heap, slice |-> r.slice, err |-> "nil"]
        ELSE [heap |-> h, slice |-> sl, err |-> "ElemNotFound"]

Remove(h, sl, obj) ==
    LET i == scanUp(Contents(h, sl), obj, 0)
    IN  IF i # -1 THEN RemoveAt(h, sl, i)
        ELSE [heap |-> h, slice |-> sl, err |-> "ElemNotFound"]

\* Slice returning the list's own slice.
SliceShared(h, sl) == [heap |-> h, slice |-> sl]

\* return append([]interface{}{}, a.slice...)
Slice(h, sl) == append(h, NilSlice, Contents(h, sl))

\* ------------------------------------------------------------ the calls
NoComb == [called |-> FALSE, args |-> <<>>, out |-> <<>>, err |-> "nil", panicked |-> FALSE]

\* What is kept of a call: the operation, the error it returned and, of a
\* query, the operand and the value returned.
Call(op, err) == [op |-> op, err |-> err, arg |-> 0, ret |-> 0]

Query(op, arg, err, ret) == [op |-> op, err |-> err, arg |-> arg, ret |-> ret]

Init ==
    /\ heap = [i \in ArrIds |-> <<>>]
    /\ a = New
    /\ c = NilSlice
    /\ s = NilSlice
    /\ count = 0
    /\ last = Call("New", "nil")
    /\ comb = NoComb

\* The state after a call that leaves heap h and the slices la, lc, ls.
Install(h, la, lc, ls) ==
    LET r == Collect(h, la, lc, ls)
    IN  /\ heap' = r.heap
        /\ a' = r.a
        /\ c' = r.c
        /\ s' = r.s

\* make([]interface{}, n, n+k) filled with vals, or the literal arguments of
\* a variadic call (k = 0).
Make(h, vals, k) ==
    IF Len(vals) + k = 0 THEN [heap |-> h, objs |-> NilSlice]
    ELSE LET id == Alloc(h)
         IN  [heap |-> [h EXCEPT ![id] = vals \o Nils(k)],
              objs |-> [arr |-> id, len |-> Len(vals), cap |-> Len(vals) + k]]

\* What the caller passes as objs...: the slice it still holds, or a new one.
\* Only calls that leave the list within limit elements are explored.
Passed(limit) ==
    LET room == limit - Size(a)
        most == IF room < MaxArgs THEN room ELSE MaxArgs
    IN  {p \in {[heap |-> heap, objs |-> c]} : c.len <= room} \cup
        {Make(heap, vals, k) : vals \in UNION {[1..n -> Elem] : n \in 0..most}, k \in Spares}

\* The caller lets go of a slice that shares no array with the list: from
\* then on neither can reach the other.
Held(la, objs) ==
    IF la.arr # 0 /\ objs.arr = la.arr THEN objs
    ELSE IF la.arr # 0 /\ c.arr = la.arr THEN c
    ELSE NilSlice

\* sl[i] = v
Write(h, sl, i, v) == [h EXCEPT ![sl.arr][i + 1] = v]

\* The caller writes c[i] = v.
CallerWrite ==
    \E i \in 0..(c.len - 1), v \in Elem :
        /\ Install(Write(heap, c, i, v), a, c, s)
        /\ last' = Call("CallerWrite", "nil")
        /\ UNCHANGED <<count, comb>>

\* The caller writes s[i] = v into the slice Slice() returned.
CallerWriteS ==
    \E i \in 0..(s.len - 1), v \in Elem :
        /\ Install(Write(heap, s, i, v), a, c, s)
        /\ last' = Call("CallerWriteS", "nil")
        /\ UNCHANGED <<count, comb>>

CallAdd(limit) ==
    \E p \in Passed(limit) :
        /\ LET r == Add(p.heap, a, p.objs)
           IN  Install(r.heap, r.slice, Held(r.slice, p.objs), s)
        /\ count' = count + p.objs.len
        /\ last' = Call("Add", "nil")
        /\ UNCHANGED comb

CallAddFirst(limit) ==
    \E p \in Passed(limit) :
        /\ LET r == AddFirst(p.heap, a, p.objs)
           IN  Install(r.heap, r.slice, Held(r.slice, p.objs), s)
        /\ count' = count + p.objs.len
        /\ last' = Call("AddFirst", "nil")
        /\ UNCHANGED comb

CallAddAt(limit) ==
    \E p \in Passed(limit), pos \in -1..(Size(a) + 1) :
        /\ LET r == AddAt(p.heap, a, pos, p.objs)
           IN  /\ Install(r.heap, r.slice, Held(r.slice, p.objs), s)
               /\ count' = IF r.err = "nil" THEN count + p.objs.len ELSE count
               /\ last' = Call("AddAt", r.err)
        /\ UNCHANGED comb

CallClear ==
    /\ Install(heap, Clear, NilSlice, s)
    /\ count' = 0
    /\ last' = Call("Clear", "nil")
    /\ UNCHANGED comb

CallGet ==
    \E pos \in -1..(Size(a) + 1) :
        /\ LET r == Get(heap, a, pos)
           IN  last' = Query("Get", pos, r.err, r.ret)
        /\ UNCHANGED <<heap, a, c, s, count, comb>>

CallIndexOf ==
    \E obj \in Elem :
        /\ last' = Query("IndexOf", obj, "nil", IndexOf(heap, a, obj))
        /\ UNCHANGED <<heap, a, c, s, count, comb>>

CallLastIndexOf ==
    \E obj \in Elem :
        /\ last' = Query("LastIndexOf", obj, "nil", LastIndexOf(heap, a, obj))
        /\ UNCHANGED <<heap, a, c, s, count, comb>>

CallRemove ==
    \E obj \in Elem :
        /\ LET r == Remove(heap, a, obj)
           IN  /\ Install(r.heap, r.slice, Held(r.slice, NilSlice), s)
               /\ count' = IF r.err = "nil" THEN count - 1 ELSE count
               /\ last' = Call("Remove", r.err)
        /\ UNCHANGED comb

CallRemoveAt ==
    \E pos \in -1..(Size(a) + 1) :
        /\ LET r == RemoveAt(heap, a, pos)
           IN  /\ Install(r.heap, r.slice, Held(r.slice, NilSlice), s)
               /\ count' = IF r.err = "nil" THEN count - 1 ELSE count
               /\ last' = Call("RemoveAt", r.err)
        /\ UNCHANGED comb

CallSlice ==
    /\ LET r == Slice(Collect(heap, a, c, NilSlice).heap, a)
       IN  Install(r.heap, a, c, r.slice)
    /\ last' = Call("Slice", "nil")
    /\ UNCHANGED <<count, comb>>

\* The list and a caller that holds on to the slices it passes.
Next ==
    \/ CallerWrite
    \/ CallAdd(MaxSize)
    \/ CallAddFirst(MaxSize)
    \/ CallAddAt(MaxSize)
    \/ CallClear
    \/ CallGet
    \/ CallIndexOf
    \/ CallLastIndexOf
    \/ CallRemove
    \/ CallRemoveAt

Spec == Init /\ [][Next]_vars

\* The list and a caller that holds on to what Slice() returned; lists of
\* up to MaxCopy elements.
NextSlice ==
    \/ CallSlice
    \/ CallerWriteS
    \/ CallAdd(MaxCopy)
    \/ CallAddFirst(MaxCopy)
    \/ CallAddAt(MaxCopy)
    \/ CallClear
    \/ CallRemove
    \/ CallRemoveAt

SpecSlice == Init /\ [][NextSlice]_vars

\* One call of Combination with up to MaxN arguments, each not a slice or a
\* slice of up to MaxLen elements.
CallCombination ==
    \E n \in 0..MaxN :
      \E shape \in [1..n -> -1..MaxLen] :
        /\ ~comb.called
        /\ comb' = Combination([i \in 1..n |->
                       IF shape[i] = -1 THEN NotSlice ELSE ArgOf(i, shape[i])])
        /\ UNCHANGED <<heap, a, c, s, count, last>>

NextComb == CallCombination

SpecComb == Init /\ [][NextComb]_vars

\* ---------------------------------------------------------- properties
List == Contents(heap, a)

\* xs with ys inserted before its element at 0-based position p.
Ins(xs, p, ys) == SubSeq(xs, 1, p) \o ys \o SubSeq(xs, p + 1, Len(xs))

\* xs without its element at 0-based position p.
Del(xs, p) == SubSeq(xs, 1, p) \o SubSeq(xs, p + 2, Len(xs))

\* The 0-based positions of x in xs.
Places(xs, x) == {i \in 0..(Len(xs) - 1) : xs[i + 1] = x}

ListMutations == {"Add", "AddFirst", "AddAt", "Remove", "RemoveAt", "Clear"}

RECURSIVE LenProduct(_, _)
LenProduct(args, i) ==
    IF i > Len(args) THEN 1 ELSE Len(args[i].elems) * LenProduct(args, i + 1)

\* The k-th tuple (from 1) in nested-loop order, the last argument fastest.
Odometer(args, k) ==
    [i \in 1..Len(args) |->
        args[i].elems[(((k - 1) \div LenProduct(args, i + 1)) % Len(args[i].elems)) + 1]]

AllSlices(args) == \A i \in 1..Len(args) : args[i].slice

\* C1: Combination of N >= 1 slices returns no error and exactly
\* len(S_0) * ... * len(S_{N-1}) tuples, the k-th being the k-th tuple of the
\* nested loops over S_0 (slowest) .. S_{N-1} (fastest); none when a slice
\* is empty.
C1_CartesianProduct ==
    (comb.called /\ Len(comb.args) >= 1 /\ AllSlices(comb.args)) =>
        /\ ~comb.panicked
        /\ comb.err = "nil"
        /\ Len(comb.out) = LenProduct(comb.args, 1)
        /\ \A k \in 1..Len(comb.out) : comb.out[k] = Odometer(comb.args, k)

C1_Witness ==
    /\ comb.called
    /\ Len(comb.args) = 3
    /\ AllSlices(comb.args)
    /\ \A i \in 1..3 : Len(comb.args[i].elems) >= 2
    /\ Len(comb.out) >= 8

\* C2: Combination returns NotSliceErr whenever one of its arguments, at any
\* position, is not a slice.
C2_NotSliceErr ==
    (comb.called /\ ~AllSlices(comb.args)) =>
        (~comb.panicked /\ comb.err = "NotSliceErr")

\* C3: Combination with no arguments returns normally, with an empty result
\* and a nil error.
C3_NoArguments ==
    (comb.called /\ Len(comb.args) = 0) =>
        (~comb.panicked /\ comb.out = <<>> /\ comb.err = "nil")

\* C4: from every reachable list, AddAt(p, objs...) with 0 <= p <= Size()
\* returns nil and leaves the elements before p, then objs, then the elements
\* from p on; for p = 0 and p = Size() that is also what the general
\* insertion addAt leaves.
C4_AddAt ==
    \A p \in Passed(MaxSize), pos \in 0..Size(a) :
        LET r == AddAt(p.heap, a, pos, p.objs)
            g == addAt(p.heap, a, pos, p.objs)
        IN  /\ r.err = "nil"
            /\ Contents(r.heap, r.slice) = Ins(List, pos, Contents(p.heap, p.objs))
            /\ Contents(r.heap, r.slice) = Contents(g.heap, g.slice)

C4_Witness ==
    /\ last.op = "AddAt"
    /\ last.err = "nil"
    /\ Size(a) = 2
    /\ c.len = 1
    /\ List[1] # List[2]

\* C5: a call that returns an error leaves the contents and the size of the
\* list as they were.
C5_FailedCallsChangeNothing ==
    [][last'.err # "nil" =>
          (Contents(heap', a') = Contents(heap, a) /\ Size(a') = Size(a))]_vars

C5_Witness ==
    /\ last.op = "AddAt"
    /\ last.err = "IndexOutOfRange"
    /\ Size(a) >= 2

\* C6: no write of the caller to the slice it passed as objs... changes the
\* contents of the list, and no mutation of the list changes that slice.
C6_ExclusiveStorage ==
    /\ \A i \in 0..(c.len - 1), v \in Elem :
           Contents(Write(heap, c, i, v), a) = List
    /\ \A pos \in 0..(Size(a) - 1) :
           Contents(RemoveAt(heap, a, pos).heap, c) = Contents(heap, c)
    /\ \A obj \in Elem :
           Contents(Remove(heap, a, obj).heap, c) = Contents(heap, c)
    /\ \A p \in Passed(MaxSize), pos \in 0..Size(a) :
           /\ Contents(Add(p.heap, a, p.objs).heap, c) = Contents(heap, c)
           /\ Contents(AddAt(p.heap, a, pos, p.objs).heap, c) = Contents(heap, c)

\* C7: a write to the slice Slice() returned changes neither the contents
\* nor the size of the list, and no mutation of the list changes that slice.
C7_SliceIsACopy ==
    [][/\ last'.op = "CallerWriteS" =>
              (Contents(heap', a') = Contents(heap, a) /\ Size(a') = Size(a))
       /\ last'.op \in ListMutations =>
              Contents(heap', s') = Contents(heap, s)]_vars

C7_Witness ==
    /\ last.op = "CallerWriteS"
    /\ Size(a) = s.len
    /\ Size(a) >= 1
    /\ Contents(heap, s) # List

\* C8: Remove(x) returns an error exactly when no element equals x; otherwise
\* it removes the first element equal to x and nothing else.
C8_RemoveFirst ==
    \A x \in Elem :
        LET r == Remove(heap, a, x)
            at == Places(List, x)
        IN  /\ r.err # "nil" <=> at = {}
            /\ at = {} => Contents(r.heap, r.slice) = List
            /\ at # {} =>
                 \E i \in at :
                     /\ \A j \in at : i <= j
                     /\ Contents(r.heap, r.slice) = Del(List, i)

C8_Witness ==
    /\ last.op = "Remove"
    /\ last.err = "nil"
    /\ Size(a) >= 2
    /\ List[1] = List[2]

\* The elements of xs keep their order in ys: ys is xs with a block put in,
\* with one element taken out, or emptied.
KeepsOrder(xs, ys) ==
    \/ ys = <<>>
    \/ \E p \in 0..Len(xs) :
           /\ Len(ys) >= Len(xs)
           /\ ys = Ins(xs, p, SubSeq(ys, p + 1, p + Len(ys) - Len(xs)))
    \/ \E p \in 0..(Len(xs) - 1) : ys = Del(xs, p)

C9_Sizes ==
    /\ Size(a) = count
    /\ IsEmpty(a) <=> count = 0
    /\ last.op \in {"New", "Clear"} => (Size(a) = 0 /\ IsEmpty(a))
    /\ \A i \in -1..(MaxSize + 1) :
           Get(heap, a, i).err = "nil" <=> (0 <= i /\ i < Size(a))
    /\ last.op = "Get" /\ last.err = "nil" => last.ret = List[last.arg + 1]

\* C9: Size() is the number of elements added minus the number removed since
\* the last Clear (or New), IsEmpty() holds exactly when that is 0, Get(i)
\* succeeds exactly for 0 <= i < Size(), and every call leaves the elements
\* that stay in the list in their order.
C9_SizeAndOrder ==
    /\ C9_Sizes
    /\ [][/\ C9_Sizes'
          /\ last'.op \in ListMutations =>
                 KeepsOrder(Contents(heap, a), Contents(heap', a'))]_vars

C9_Witness ==
    /\ last.op = "RemoveAt"
    /\ last.err = "nil"
    /\ count >= 2
    /\ List[1] # List[2]

C10_Indexes ==
    /\ \A x \in Elem :
           LET at == Places(List, x)
               first == IndexOf(heap, a, x)
               final == LastIndexOf(heap, a, x)
           IN  /\ first = -1 <=> at = {}
               /\ final = -1 <=> at = {}
               /\ at # {} =>
                    /\ first \in at /\ \A i \in at : first <= i
                    /\ final \in at /\ \A i \in at : i <= final
                    /\ 0 <= first /\ first <= final /\ final < Size(a)
    /\ last.op = "IndexOf" => last.ret = IndexOf(heap, a, last.arg)
    /\ last.op = "LastIndexOf" => last.ret = LastIndexOf(heap, a, last.arg)

\* C10: IndexOf(x) is the least and LastIndexOf(x) the greatest index of an
\* element equal to x, both are -1 exactly when there is none, otherwise
\* 0 <= IndexOf(x) <= LastIndexOf(x) < Size(); neither call changes the list.
C10_IndexOfLastIndexOf ==
    /\ C10_Indexes
    /\ [][/\ C10_Indexes'
          /\ last'.op \in {"IndexOf", "LastIndexOf"} =>
                 (Contents(heap', a') = Contents(heap, a) /\ Size(a') = Size(a))]_vars

C10_Witness ==
    /\ last.op = "LastIndexOf"
    /\ Size(a) >= 3
    /\ 0 <= IndexOf(heap, a, last.arg)
    /\ IndexOf(heap, a, last.arg) < last.ret

====
